---- MODULE Spec2Model ----
(***************************************************************************)
(* biscuit-wasm: the wasm binding of the biscuit authorization token.      *)
(* src/src/lib.rs wraps the biscuit_auth crate: Biscuit (token),           *)
(* Authorizer, BiscuitBuilder, BlockBuilder, KeyPair/PublicKey/PrivateKey. *)
(* The wrapper's own code is modelled from lib.rs; what the wrapper        *)
(* delegates to the biscuit_auth crate (signing, the wire format, the      *)
(* Datalog evaluation) is not in the repository and is modelled from the   *)
(* specification's sections 3, 4 and 7: the operators named Lib... and    *)
(* Parse...                                                                *)
(* Five specifications: Spec (the life of a token and its serialized       *)
(* forms), SpecAuth (the life of an Authorizer), SpecBuild (builders,      *)
(* Authorizer and token in one caller's hands), SpecKeys (the key codecs)  *)
(* and SpecShare (two callers sharing one token).                          *)
(***************************************************************************)
EXTENDS Integers, Sequences, FiniteSets, TLC

VARIABLES tok, auth, last, bld, blk, share, buf

vars == <<tok, auth, last, bld, blk, share, buf>>

(***************************************************************************)
(* Bounds                                                                  *)
(***************************************************************************)
\* blocks of a token, authority block included
MaxBlocks == 2
\* statements added to one Authorizer (add_fact/add_rule/add_check/add_policy/add_code)
MaxAdds == 3

\* an add call on a builder, or on the Authorizer used next to builders and
\* token, is made only while the receiver holds fewer statements than this
MaxStmts == 2

\* a caller that shares the token adds to its Authorizer only while it holds
\* fewer statements than this
MaxOwn == 1

(***************************************************************************)
(* Results: Rust's Result<T, JsValue> and Option<T>                        *)
(***************************************************************************)
\* err names the error kind; checks and policy are the payload of the
\* authorization errors (the failing checks, the denying policy's index)
Ok(v) == [ok |-> TRUE, val |-> <<v>>, err |-> "none", checks |-> {}, policy |-> -1]

Err(e) == [ok |-> FALSE, val |-> <<>>, err |-> e, checks |-> {}, policy |-> -1]

Unit == "unit"

Some(v) == <<v>>

None == <<>>

IsSome(o) == Len(o) = 1

Get(o) == o[1]

(***************************************************************************)
(* The policy language: facts are atoms, a rule derives its head from its  *)
(* body, a check or policy condition is an atom or the constant true.      *)
(***************************************************************************)
Atoms == {"a", "b"}

Conds == Atoms \cup {"true"}

FactTexts == {"a"}

RuleTexts == {"b <- a"}

CheckTexts == {"check if a", "check if b"}

PolicyTexts == {"allow if true", "allow if a", "deny if a", "deny if b"}

BadText == "!!"

LanguageError == "LanguageError"

ParseFact(text) ==
    IF text \in FactTexts THEN Ok(text) ELSE Err(LanguageError)

ParseRule(text) ==
    IF text = "b <- a" THEN Ok([head |-> "b", body |-> "a"]) ELSE Err(LanguageError)

ParseCheck(text) ==
    CASE text = "check if a" -> Ok([cond |-> "a"])
      [] text = "check if b" -> Ok([cond |-> "b"])
      [] OTHER -> Err(LanguageError)

ParsePolicy(text) ==
    CASE text = "allow if true" -> Ok([kind |-> "allow", cond |-> "true"])
      [] text = "allow if a" -> Ok([kind |-> "allow", cond |-> "a"])
      [] text = "allow if b" -> Ok([kind |-> "allow", cond |-> "b"])
      [] text = "deny if true" -> Ok([kind |-> "deny", cond |-> "true"])
      [] text = "deny if a" -> Ok([kind |-> "deny", cond |-> "a"])
      [] text = "deny if b" -> Ok([kind |-> "deny", cond |-> "b"])
      [] OTHER -> Err(LanguageError)

(***************************************************************************)
(* Keys                                                                    *)
(***************************************************************************)
KeyPairs == {"K1", "K2"}

KeyPair_public(k) == [pub |-> k]

KeyPair_private(k) == [priv |-> k]

PublicKeys == {KeyPair_public(k) : k \in KeyPairs}

\* the length of a key's raw form
KeySize == 32

\* the raw form of a key of the crate: KeySize bytes, different for different keys
LibKey_to_bytes(key) ==
    LET m == CASE key = [pub |-> "K1"] -> 3
               [] key = [pub |-> "K2"] -> 7
               [] key = [priv |-> "K1"] -> 5
               [] key = [priv |-> "K2"] -> 11
    IN [i \in 1..KeySize |-> (i * m) % 256]

PrivateKeys == {KeyPair_private(k) : k \in KeyPairs}

\* PublicKey::from_bytes of the crate: the length is checked, then the point
LibPublicKey_from_bytes(data) ==
    IF Len(data) # KeySize THEN Err("InvalidKeySize")
    ELSE IF \E key \in PublicKeys : LibKey_to_bytes(key) = data
         THEN Ok(CHOOSE key \in PublicKeys : LibKey_to_bytes(key) = data)
         ELSE Err("InvalidKey")

\* PrivateKey::from_bytes of the crate
LibPrivateKey_from_bytes(data) ==
    IF Len(data) # KeySize THEN Err("InvalidKeySize")
    ELSE IF \E key \in PrivateKeys : LibKey_to_bytes(key) = data
         THEN Ok(CHOOSE key \in PrivateKeys : LibKey_to_bytes(key) = data)
         ELSE Err("InvalidKey")

HexDigits == <<"0", "1", "2", "3", "4", "5", "6", "7", "8", "9", "a", "b", "c", "d", "e", "f">>

\* hex::encode: two digits a byte, the high one first
HexEncode(bytes) ==
    [i \in 1..(2 * Len(bytes)) |->
        IF i % 2 = 1 THEN HexDigits[(bytes[(i + 1) \div 2] \div 16) + 1]
        ELSE HexDigits[(bytes[i \div 2] % 16) + 1]]

IsHexDigit(ch) == \E n \in 1..16 : HexDigits[n] = ch

HexVal(ch) == (CHOOSE n \in 1..16 : HexDigits[n] = ch) - 1

\* hex::decode: an odd length or a character that is no digit is an error
HexDecode(str) ==
    IF Len(str) % 2 = 1 \/ \E i \in 1..Len(str) : ~IsHexDigit(str[i])
    THEN Err("FromHexError")
    ELSE Ok([j \in 1..(Len(str) \div 2) |-> 16 * HexVal(str[2 * j - 1]) + HexVal(str[2 * j])])

\* faulty variant: the length of the buffer not checked, what fits is copied
PublicKey_to_bytes_unchecked(self, out) ==
    [out |-> [i \in 1..Len(out) |->
                 IF i <= KeySize THEN LibKey_to_bytes(self)[i] ELSE out[i]],
     ret |-> Ok(Unit)]

\* to_bytes(&self, out: &mut [u8]): out is what the buffer holds after the call
PublicKey_to_bytes(self, out) ==
    IF Len(out) # 32 THEN [out |-> out, ret |-> Err("InvalidKeySize")]
    ELSE [out |-> LibKey_to_bytes(self), ret |-> Ok(Unit)]

PublicKey_to_hex(self) == HexEncode(LibKey_to_bytes(self))

PublicKey_from_bytes(data) == LibPublicKey_from_bytes(data)

PublicKey_from_hex(data) ==
    LET d == HexDecode(data) IN
    IF ~d.ok THEN Err("InvalidKey") ELSE LibPublicKey_from_bytes(Get(d.val))

PrivateKey_to_bytes(self, out) ==
    IF Len(out) # 32 THEN [out |-> out, ret |-> Err("InvalidKeySize")]
    ELSE [out |-> LibKey_to_bytes(self), ret |-> Ok(Unit)]

PrivateKey_to_hex(self) == HexEncode(LibKey_to_bytes(self))

PrivateKey_from_bytes(data) == LibPrivateKey_from_bytes(data)

PrivateKey_from_hex(data) ==
    LET d == HexDecode(data) IN
    IF ~d.ok THEN Err("InvalidKey") ELSE LibPrivateKey_from_bytes(Get(d.val))

(***************************************************************************)
(* Builders: BiscuitBuilder { facts, rules, checks } and the BlockBuilder  *)
(***************************************************************************)
BiscuitBuilder_new == [facts |-> <<>>, rules |-> <<>>, checks |-> <<>>]

BlockBuilder_new == [facts |-> <<>>, rules |-> <<>>, checks |-> <<>>]

BlockBuilder_add_fact(self, text) ==
    LET p == ParseFact(text) IN
    IF p.ok THEN [self |-> [self EXCEPT !.facts = Append(@, Get(p.val))], ret |-> Ok(Unit)]
    ELSE [self |-> self, ret |-> Err(p.err)]

BlockBuilder_add_rule(self, text) ==
    LET p == ParseRule(text) IN
    IF p.ok THEN [self |-> [self EXCEPT !.rules = Append(@, Get(p.val))], ret |-> Ok(Unit)]
    ELSE [self |-> self, ret |-> Err(p.err)]

BlockBuilder_add_check(self, text) ==
    LET p == ParseCheck(text) IN
    IF p.ok THEN [self |-> [self EXCEPT !.checks = Append(@, Get(p.val))], ret |-> Ok(Unit)]
    ELSE [self |-> self, ret |-> Err(p.err)]

\* faulty variant: the text pushed before it is validated
BiscuitBuilder_add_authority_fact_unchecked(self, text) ==
    LET p == ParseFact(text) IN
    IF p.ok THEN [self |-> [self EXCEPT !.facts = Append(@, Get(p.val))], ret |-> Ok(Unit)]
    ELSE [self |-> [self EXCEPT !.facts = Append(@, text)], ret |-> Err(p.err)]

BiscuitBuilder_add_authority_fact(self, text) ==
    LET p == ParseFact(text) IN
    IF p.ok THEN [self |-> [self EXCEPT !.facts = Append(@, Get(p.val))], ret |-> Ok(Unit)]
    ELSE [self |-> self, ret |-> Err(p.err)]

BiscuitBuilder_add_authority_rule(self, text) ==
    LET p == ParseRule(text) IN
    IF p.ok THEN [self |-> [self EXCEPT !.rules = Append(@, Get(p.val))], ret |-> Ok(Unit)]
    ELSE [self |-> self, ret |-> Err(p.err)]

BiscuitBuilder_add_authority_check(self, text) ==
    LET p == ParseCheck(text) IN
    IF p.ok THEN [self |-> [self EXCEPT !.checks = Append(@, Get(p.val))], ret |-> Ok(Unit)]
    ELSE [self |-> self, ret |-> Err(p.err)]

\* the builders the token operations are given: what one add_* call on a
\* fresh builder leaves, and the fresh builder itself
SampleBuilders ==
    {BlockBuilder_new}
    \cup {BlockBuilder_add_fact(BlockBuilder_new, t).self : t \in FactTexts}
    \cup {BlockBuilder_add_rule(BlockBuilder_new, t).self : t \in RuleTexts}
    \cup {BlockBuilder_add_check(BlockBuilder_new, t).self : t \in CheckTexts}

(***************************************************************************)
(* The token of the biscuit_auth crate: a chain of signed blocks and a     *)
(* sealed flag (spec section 3).  A signature names its signer, the        *)
(* content it covers and the signature of the previous block.              *)
(***************************************************************************)
Content(b) == [facts |-> b.facts, rules |-> b.rules, checks |-> b.checks]

\* signer of every block after the authority block: the key the previous block hands on
NextKey == "next"

Sign(signer, content, prev) == [signer |-> signer, over |-> content, prev |-> prev]

SignedBlock(b, signer, prev) ==
    [facts |-> b.facts, rules |-> b.rules, checks |-> b.checks,
     sig |-> Sign(signer, Content(b), prev)]

LastSig(t) == t.blocks[Len(t.blocks)].sig

\* BiscuitBuilder::build of the crate: block 0 signed by the root private key
LibBuild(builder, root) ==
    Ok([blocks |-> <<SignedBlock(builder, KeyPair_private(root).priv, None)>>,
        sealed |-> FALSE, root |-> KeyPair_public(root).pub])

\* Biscuit::append of the crate
LibAppend(t, builder) ==
    IF t.sealed THEN Err("SealedToken")
    ELSE Ok([t EXCEPT !.blocks = Append(@, SignedBlock(builder, NextKey, Some(LastSig(t))))])

\* Biscuit::seal of the crate
LibSeal(t) == Ok([t EXCEPT !.sealed = TRUE])

\* a revocation identifier is a function of the block's signature alone
RevId(sig) == [rev |-> sig]

\* Biscuit::revocation_identifiers of the crate: one per block, in block order
LibRevocationIdentifiers(t) == [i \in 1..Len(t.blocks) |-> RevId(t.blocks[i].sig)]

\* the textual reconstruction of a block: the texts that parse to its
\* facts, to its rules and to its checks
PrintBlock(b) ==
    [i \in 1..Len(b.facts) |-> CHOOSE text \in FactTexts : ParseFact(text) = Ok(b.facts[i])]
    \o [i \in 1..Len(b.rules) |-> CHOOSE text \in RuleTexts : ParseRule(text) = Ok(b.rules[i])]
    \o [i \in 1..Len(b.checks) |->
           CHOOSE text \in CheckTexts : ParseCheck(text) = Ok(b.checks[i])]

\* Biscuit::print_block_source of the crate: none if index (from 0) is out of range
LibPrintBlockSource(t, index) ==
    IF index < Len(t.blocks) THEN Some(PrintBlock(t.blocks[index + 1])) ELSE None

LibCreateBlock(t) == BlockBuilder_new

LibBlockCount(t) == Len(t.blocks)

(***************************************************************************)
(* The wire format: one entry per block, then the proof entry, which is    *)
(* bound to the last block and says whether the token is sealed.           *)
(***************************************************************************)
BlockEntry(b) ==
    [tag |-> "block", facts |-> b.facts, rules |-> b.rules, checks |-> b.checks,
     sig |-> b.sig, final |-> FALSE]

ProofEntry(t) ==
    [tag |-> "proof", facts |-> <<>>, rules |-> <<>>, checks |-> <<>>,
     sig |-> LastSig(t), final |-> t.sealed]

Bytes(items) == [enc |-> "bytes", items |-> items]

\* Biscuit::to_vec of the crate
LibToVec(t) ==
    Ok(Bytes([i \in 1..(Len(t.blocks) + 1) |->
                IF i <= Len(t.blocks) THEN BlockEntry(t.blocks[i]) ELSE ProofEntry(t)]))

WellFormed(items) ==
    /\ Len(items) >= 2
    /\ items[Len(items)].tag = "proof"
    /\ \A i \in 1..(Len(items) - 1) : items[i].tag = "block"

VerifyBlock(items, i, root) ==
    /\ items[i].sig.signer = (IF i = 1 THEN root.pub ELSE NextKey)
    /\ items[i].sig.over = Content(items[i])
    /\ items[i].sig.prev = (IF i = 1 THEN None ELSE Some(items[i - 1].sig))

VerifyChain(items, root) ==
    /\ \A i \in 1..(Len(items) - 1) : VerifyBlock(items, i, root)
    /\ items[Len(items)].sig = items[Len(items) - 1].sig

Decode(items, root) ==
    [blocks |-> [i \in 1..(Len(items) - 1) |->
                    [facts |-> items[i].facts, rules |-> items[i].rules,
                     checks |-> items[i].checks, sig |-> items[i].sig]],
     sealed |-> items[Len(items)].final,
     root |-> root.pub]

\* Biscuit::from of the crate, with the key provider's answer `root`
LibFrom(data, root) ==
    IF ~WellFormed(data.items) THEN Err("Format")
    ELSE IF ~VerifyChain(data.items, root) THEN Err("Signature")
    ELSE Ok(Decode(data.items, root))

\* URL-safe base 64: one symbol per wire entry; a symbol outside the alphabet is invalid
Base64Encode(items) == [i \in 1..Len(items) |-> [valid |-> TRUE, sym |-> items[i]]]

Base64Valid(str) == \A i \in 1..Len(str) : str[i].valid

Base64Decode(str) == [i \in 1..Len(str) |-> str[i].sym]

LibToBase64(t) ==
    Ok([enc |-> "base64", items |-> Base64Encode(Get(LibToVec(t).val).items)])

LibFromBase64(data, root) ==
    IF ~Base64Valid(data.items) THEN Err("Format")
    ELSE LibFrom(Bytes(Base64Decode(data.items)), root)

(***************************************************************************)
(* impl Biscuit (lib.rs 14-115): every method takes &self and returns a    *)
(* new value; an error of the crate is passed on as the JsValue.           *)
(***************************************************************************)
Biscuit_create_block(self) == LibCreateBlock(self)

\* faulty variant: the new block put in front of the blocks of the token
Biscuit_append_front(self, block) ==
    LET r == LibAppend(self, block) IN
    IF ~r.ok THEN r
    ELSE LET bs == Get(r.val).blocks IN
         Ok([Get(r.val) EXCEPT !.blocks = <<bs[Len(bs)]>> \o SubSeq(bs, 1, Len(bs) - 1)])

Biscuit_append(self, block) == LibAppend(self, block)

Biscuit_seal(self) == LibSeal(self)

\* faulty variant: the token rebuilt as an open (unsealed) one
Biscuit_from_bytes_unsealing(data, root) ==
    LET r == LibFrom(data, root) IN
    IF r.ok THEN Ok([Get(r.val) EXCEPT !.sealed = FALSE]) ELSE r

\* faulty variant: the data decoded without the chain being verified
Biscuit_from_bytes_unverified(data, root) ==
    IF WellFormed(data.items) THEN Ok(Decode(data.items, root)) ELSE Err("Format")

Biscuit_from_bytes(data, root) == LibFrom(data, root)

Biscuit_from_base64(data, root) == LibFromBase64(data, root)

Biscuit_to_bytes(self) == LibToVec(self)

\* faulty variant: encoded with an alphabet from_base64 does not accept
Biscuit_to_base64_standard(self) ==
    LET r == LibToBase64(self) IN
    Ok([Get(r.val) EXCEPT !.items = [i \in 1..Len(@) |-> [@[i] EXCEPT !.valid = FALSE]]])

Biscuit_to_base64(self) == LibToBase64(self)

Biscuit_block_count(self) == LibBlockCount(self)

Biscuit_block_source(self, index) == LibPrintBlockSource(self, index)

\* base64::encode_config(id, base64::URL_SAFE)
Base64Url(id) == [valid |-> TRUE, sym |-> id]

\* faulty variant: the identifier of the authority block skipped
Biscuit_revocation_identifiers_skip(self) ==
    LET ids == LibRevocationIdentifiers(self) IN
    [i \in 1..(Len(ids) - 1) |-> Base64Url(ids[i + 1])]

Biscuit_revocation_identifiers(self) ==
    LET ids == LibRevocationIdentifiers(self) IN
    [i \in 1..Len(ids) |-> Base64Url(ids[i])]

BiscuitBuilder_build(self, root) == LibBuild(self, root)

(***************************************************************************)
(* The authorizer of the biscuit_auth crate (spec section 4.4): one        *)
(* context of facts and rules, one combined check list, one policy list.   *)
(***************************************************************************)
LibAuthorizer_new == [facts |-> <<>>, rules |-> <<>>, checks |-> <<>>, policies |-> <<>>]

RECURSIVE Concat(_)
Concat(ss) == IF ss = <<>> THEN <<>> ELSE Head(ss) \o Concat(Tail(ss))

\* Biscuit::authorizer of the crate: every block's facts, rules and checks, in block order
LibTokenAuthorizer(t) ==
    [facts |-> Concat([i \in 1..Len(t.blocks) |-> t.blocks[i].facts]),
     rules |-> Concat([i \in 1..Len(t.blocks) |-> t.blocks[i].rules]),
     checks |-> Concat([i \in 1..Len(t.blocks) |-> t.blocks[i].checks]),
     policies |-> <<>>]

LibAddFact(a, fact) == [a EXCEPT !.facts = Append(@, fact)]

LibAddRule(a, rule) == [a EXCEPT !.rules = Append(@, rule)]

LibAddCheck(a, check) == [a EXCEPT !.checks = Append(@, check)]

LibAddPolicy(a, policy) == [a EXCEPT !.policies = Append(@, policy)]

Range(s) == {s[i] : i \in 1..Len(s)}

\* one round of rule application
Derive(F, R) == F \cup {r.head : r \in {x \in R : x.body \in F}}

RECURSIVE Saturate(_, _, _)
Saturate(F, R, n) == IF n = 0 THEN F ELSE Saturate(Derive(F, R), R, n - 1)

\* the facts of the context and all the facts its rules derive from them
Context(a) == Saturate(Range(a.facts), Range(a.rules), Cardinality(Atoms))

HoldsIn(cond, ctx) == cond = "true" \/ cond \in ctx

\* indices (from 0) of the checks of the combined list that do not hold
FailedIn(a) == {i - 1 : i \in {j \in 1..Len(a.checks) : ~HoldsIn(a.checks[j].cond, Context(a))}}

\* positions (from 1) of the policies whose condition holds
Matching(a) == {j \in 1..Len(a.policies) : HoldsIn(a.policies[j].cond, Context(a))}

Min(S) == CHOOSE x \in S : \A y \in S : x <= y

ErrFailedChecks(S) == [Err("FailedChecks") EXCEPT !.checks = S]

ErrDenied(i) == [Err("DeniedByPolicy") EXCEPT !.policy = i]

\* Authorizer::authorize of the crate
LibAuthorize(a) ==
    IF FailedIn(a) # {} THEN ErrFailedChecks(FailedIn(a))
    ELSE IF Matching(a) = {} THEN Err("NoMatchingPolicy")
    ELSE LET j == Min(Matching(a)) IN
         IF a.policies[j].kind = "allow" THEN Ok(j - 1) ELSE ErrDenied(j - 1)

(***************************************************************************)
(* parse_source of the crate: a source is a sequence of statements, each   *)
(* of one kind; the parse fails as a whole on a statement that does not    *)
(* parse, else gives the statements of each kind in source order.          *)
(***************************************************************************)
Stmt(kind, text) == [kind |-> kind, text |-> text]

ParseStmt(st) ==
    CASE st.kind = "fact" -> ParseFact(st.text)
      [] st.kind = "rule" -> ParseRule(st.text)
      [] st.kind = "check" -> ParseCheck(st.text)
      [] st.kind = "policy" -> ParsePolicy(st.text)
      [] OTHER -> Err(LanguageError)

RECURSIVE OfKind(_, _)
OfKind(source, kind) ==
    IF source = <<>> THEN <<>>
    ELSE (IF Head(source).kind = kind THEN <<Get(ParseStmt(Head(source)).val)>> ELSE <<>>)
         \o OfKind(Tail(source), kind)

ParseSource(source) ==
    IF \E i \in 1..Len(source) : ~ParseStmt(source[i]).ok THEN Err(LanguageError)
    ELSE Ok([facts |-> OfKind(source, "fact"), rules |-> OfKind(source, "rule"),
             checks |-> OfKind(source, "check"), policies |-> OfKind(source, "policy")])

\* the source of a block: facts, rules and checks; a block has no policies,
\* a policy statement does not parse there
ParseBlockSource(source) ==
    IF \E i \in 1..Len(source) : source[i].kind = "policy" \/ ~ParseStmt(source[i]).ok
    THEN Err(LanguageError)
    ELSE Ok([facts |-> OfKind(source, "fact"), rules |-> OfKind(source, "rule"),
             checks |-> OfKind(source, "check")])

\* BlockBuilder::add_code (lib.rs 351-355), handed to the crate's builder
BlockBuilder_add_code(self, source) ==
    LET p == ParseBlockSource(source) IN
    IF ~p.ok THEN [self |-> self, ret |-> Err(p.err)]
    ELSE LET r == Get(p.val) IN
         [self |-> [self EXCEPT !.facts = @ \o r.facts, !.rules = @ \o r.rules,
                                !.checks = @ \o r.checks],
          ret |-> Ok(Unit)]

\* Biscuit::builder()
Biscuit_builder == BiscuitBuilder_new

(***************************************************************************)
(* struct Authorizer and impl Authorizer (lib.rs 117-242)                  *)
(***************************************************************************)
\* faulty variant: the token left out of the new Authorizer
Biscuit_authorizer_default(self) ==
    Ok([token |-> None, facts |-> <<>>, rules |-> <<>>, checks |-> <<>>, policies |-> <<>>])

Authorizer_new ==
    [token |-> None, facts |-> <<>>, rules |-> <<>>, checks |-> <<>>, policies |-> <<>>]

Biscuit_authorizer(self) == Ok([Authorizer_new EXCEPT !.token = Some(self)])

Authorizer_add_fact(self, text) ==
    LET p == ParseFact(text) IN
    IF p.ok THEN [self |-> [self EXCEPT !.facts = Append(@, Get(p.val))], ret |-> Ok(Unit)]
    ELSE [self |-> self, ret |-> Err(p.err)]

Authorizer_add_rule(self, text) ==
    LET p == ParseRule(text) IN
    IF p.ok THEN [self |-> [self EXCEPT !.rules = Append(@, Get(p.val))], ret |-> Ok(Unit)]
    ELSE [self |-> self, ret |-> Err(p.err)]

Authorizer_add_check(self, text) ==
    LET p == ParseCheck(text) IN
    IF p.ok THEN [self |-> [self EXCEPT !.checks = Append(@, Get(p.val))], ret |-> Ok(Unit)]
    ELSE [self |-> self, ret |-> Err(p.err)]

Authorizer_add_policy(self, text) ==
    LET p == ParsePolicy(text) IN
    IF p.ok THEN [self |-> [self EXCEPT !.policies = Append(@, Get(p.val))], ret |-> Ok(Unit)]
    ELSE [self |-> self, ret |-> Err(p.err)]

\* the statements of a source before the first one that does not parse
RECURSIVE ParsedPrefix(_)
ParsedPrefix(source) ==
    IF source = <<>> \/ ~ParseStmt(Head(source)).ok THEN <<>>
    ELSE <<Head(source)>> \o ParsedPrefix(Tail(source))

\* faulty variant: the statements pushed one by one as they parse
Authorizer_add_code_partial(self, source) ==
    LET p == ParseSource(source)
        q == ParsedPrefix(source)
    IN [self |-> [self EXCEPT !.facts = @ \o OfKind(q, "fact"), !.rules = @ \o OfKind(q, "rule"),
                              !.checks = @ \o OfKind(q, "check"),
                              !.policies = @ \o OfKind(q, "policy")],
        ret |-> IF p.ok THEN Ok(Unit) ELSE Err(p.err)]

Authorizer_add_code(self, source) ==
    LET p == ParseSource(source) IN
    IF ~p.ok THEN [self |-> self, ret |-> Err(p.err)]
    ELSE LET r == Get(p.val) IN
         [self |-> [self EXCEPT !.facts = @ \o r.facts, !.rules = @ \o r.rules,
                                !.checks = @ \o r.checks, !.policies = @ \o r.policies],
          ret |-> Ok(Unit)]

\* the loops of authorize: each element of a list handed to the crate's authorizer, in order
LibAdd(kind, a, x) ==
    CASE kind = "fact" -> LibAddFact(a, x)
      [] kind = "rule" -> LibAddRule(a, x)
      [] kind = "check" -> LibAddCheck(a, x)
      [] kind = "policy" -> LibAddPolicy(a, x)

RECURSIVE AddEach(_, _, _)
AddEach(kind, a, list) ==
    IF list = <<>> THEN a ELSE AddEach(kind, LibAdd(kind, a, Head(list)), Tail(list))

\* faulty variant: the Authorizer's own statements put before the token's
FillAuthorizer_ownfirst(token, facts, rules, checks, policies) ==
    LET t == IF IsSome(token) THEN LibTokenAuthorizer(Get(token)) ELSE LibAuthorizer_new
    IN [facts |-> facts \o t.facts, rules |-> rules \o t.rules,
        checks |-> checks \o t.checks, policies |-> policies]

\* the crate's authorizer as authorize fills it: that of the token (or a new
\* one), then the facts, the rules, the checks and the policies, each in order
FillAuthorizer(token, facts, rules, checks, policies) ==
    LET a0 == IF IsSome(token) THEN LibTokenAuthorizer(Get(token)) ELSE LibAuthorizer_new
        a1 == AddEach("fact", a0, facts)
        a2 == AddEach("rule", a1, rules)
        a3 == AddEach("check", a2, checks)
        a4 == AddEach("policy", a3, policies)
    IN a4

\* the body of authorize: the crate's authorizer filled, then asked for the verdict
RunAuthorizer(token, facts, rules, checks, policies) ==
    LibAuthorize(FillAuthorizer(token, facts, rules, checks, policies))

Reverse(s) == [i \in 1..Len(s) |-> s[Len(s) + 1 - i]]

\* faulty variant: the policies handed over last-added first
Authorizer_authorize_reversed(self) ==
    RunAuthorizer(self.token, self.facts, self.rules, self.checks, Reverse(self.policies))

\* faulty variant: the loop over self.checks left out
Authorizer_authorize_nochecks(self) ==
    RunAuthorizer(self.token, self.facts, self.rules, <<>>, self.policies)

\* faulty variant: a new crate authorizer even when a token is attached
Authorizer_authorize_notoken(self) ==
    RunAuthorizer(None, self.facts, self.rules, self.checks, self.policies)

\* faulty variant: the no-match error turned into the default index
Authorizer_authorize_lenient(self) ==
    LET r == RunAuthorizer(self.token, self.facts, self.rules, self.checks, self.policies)
    IN IF r.err = "NoMatchingPolicy" THEN Ok(0) ELSE r

Authorizer_authorize(self) ==
    RunAuthorizer(self.token, self.facts, self.rules, self.checks, self.policies)


(***************************************************************************)
(* Token lifecycle.  tok is the caller's token handle; last records the    *)
(* latest call: its receiver before (self) and after (after) the call, its *)
(* arguments, what it returned, and for serialized data the token it was   *)
(* made from (src) and whether it is still as to_bytes/to_base64 made it   *)
(* (for the raw or hexadecimal form of a key: the key it was made from).   *)
(* bld and blk are the BiscuitBuilder and the BlockBuilder the caller      *)
(* holds: build(self) and append(&self, block) take them by value, so the  *)
(* caller holds none afterwards.  share is the state of the callers that   *)
(* share one token (see the last specification), buf the caller's byte    *)
(* buffer (see the specification of the key codecs).                      *)
(***************************************************************************)
Call(op, self, after, arg, ret, src, clean) ==
    [op |-> op, self |-> self, after |-> after, arg |-> arg, ret |-> ret,
     src |-> src, clean |-> clean]

NoCall == Call("init", None, None, <<>>, Ok(Unit), None, FALSE)

\* the value a handle holds after `t = call(...)` (keep) or `let d = call(...)`
Rebind(keep, after, ret) ==
    IF keep /\ ret.ok THEN Some(Get(ret.val)) ELSE Some(after)

\* no callers sharing a token
NoShare == <<>>

Build(b, k) ==
    /\ tok = None
    /\ LET ret == BiscuitBuilder_build(b, k) IN
        /\ tok' = (IF ret.ok THEN Some(Get(ret.val)) ELSE None)
        /\ last' = Call("build", None, None, <<b, k>>, ret, None, FALSE)
    /\ bld' = None
    /\ UNCHANGED <<auth, blk, share, buf>>

\* faulty variant: the block pushed onto the receiver itself
AppendCall_inplace(self, block) ==
    LET r == Biscuit_append(self, block) IN
    [after |-> IF r.ok THEN Get(r.val) ELSE self, ret |-> r]

\* faulty variant: the receiver closed to further blocks by the call
AppendCall_sealing(self, block) ==
    [after |-> [self EXCEPT !.sealed = TRUE], ret |-> Biscuit_append(self, block)]

\* append(&self, block): self is borrowed, the result is a new Biscuit
AppendCall(self, block) == [after |-> self, ret |-> Biscuit_append(self, block)]

AppendBlock(b, keep) ==
    /\ IsSome(tok)
    /\ Get(tok).sealed \/ Len(Get(tok).blocks) < MaxBlocks
    /\ LET c == AppendCall(Get(tok), b) IN
        /\ tok' = Rebind(keep, c.after, c.ret)
        /\ last' = Call("append", tok, Some(c.after), <<b>>, c.ret, None, FALSE)
    /\ blk' = None
    /\ UNCHANGED <<auth, bld, share, buf>>

\* faulty variant: the receiver itself marked sealed
SealCall_inplace(self) ==
    LET r == Biscuit_seal(self) IN
    [after |-> IF r.ok THEN Get(r.val) ELSE self, ret |-> r]

\* seal(&self)
SealCall(self) == [after |-> self, ret |-> Biscuit_seal(self)]

Seal(keep) ==
    /\ IsSome(tok)
    /\ LET c == SealCall(Get(tok)) IN
        /\ tok' = Rebind(keep, c.after, c.ret)
        /\ last' = Call("seal", tok, Some(c.after), <<>>, c.ret, None, FALSE)
    /\ UNCHANGED <<auth, bld, blk, share, buf>>

\* create_block(&self); the caller holds the builder (keep) or drops it
CreateBlock(keep) ==
    /\ IsSome(tok)
    /\ blk' = (IF keep THEN Some(Biscuit_create_block(Get(tok))) ELSE blk)
    /\ last' = Call("create_block", tok, tok, <<>>, Ok(Biscuit_create_block(Get(tok))), None, FALSE)
    /\ UNCHANGED <<tok, auth, bld, share, buf>>

BlockCount ==
    /\ IsSome(tok)
    /\ last' = Call("block_count", tok, tok, <<>>, Ok(Biscuit_block_count(Get(tok))), None, FALSE)
    /\ UNCHANGED <<tok, auth, bld, blk, share, buf>>

BlockSource(index) ==
    /\ IsSome(tok)
    /\ last' = Call("block_source", tok, tok, <<index>>,
                    Ok(Biscuit_block_source(Get(tok), index)), None, FALSE)
    /\ UNCHANGED <<tok, auth, bld, blk, share, buf>>

RevocationIdentifiers ==
    /\ IsSome(tok)
    /\ last' = Call("revocation_identifiers", tok, tok, <<>>,
                    Ok(Biscuit_revocation_identifiers(Get(tok))), None, FALSE)
    /\ UNCHANGED <<tok, auth, bld, blk, share, buf>>

ToBytes ==
    /\ IsSome(tok)
    /\ last' = Call("to_bytes", tok, tok, <<>>, Biscuit_to_bytes(Get(tok)), tok, TRUE)
    /\ UNCHANGED <<tok, auth, bld, blk, share, buf>>

ToBase64 ==
    /\ IsSome(tok)
    /\ last' = Call("to_base64", tok, tok, <<>>, Biscuit_to_base64(Get(tok)), tok, TRUE)
    /\ UNCHANGED <<tok, auth, bld, blk, share, buf>>

\* serialized data in transit, as to_bytes/to_base64 returned it or as altered since
HoldsData == last.op \in {"to_bytes", "to_base64", "tamper", "truncate", "corrupt"} /\ last.ret.ok

Data == Get(last.ret.val)

Entries(data) == IF data.enc = "bytes" THEN data.items ELSE Base64Decode(data.items)

Reencode(data, items) ==
    [data EXCEPT !.items = IF data.enc = "bytes" THEN items ELSE Base64Encode(items)]

\* the signed content of block i replaced by b's, the signature left as it was
Tamper(i, b) ==
    /\ HoldsData /\ last.clean
    /\ i \in 1..(Len(Entries(Data)) - 1)
    /\ Content(Entries(Data)[i]) # Content(b)
    /\ LET e == Entries(Data)
           e2 == [e EXCEPT ![i] = [@ EXCEPT !.facts = b.facts, !.rules = b.rules,
                                            !.checks = b.checks]]
       IN last' = Call("tamper", None, None, <<i, b>>, Ok(Reencode(Data, e2)), last.src, FALSE)
    /\ UNCHANGED <<tok, auth, bld, blk, share, buf>>

\* the data cut to its first n entries
Truncate(n) ==
    /\ HoldsData /\ last.clean
    /\ n \in 0..(Len(Data.items) - 1)
    /\ last' = Call("truncate", None, None, <<n>>,
                    Ok([Data EXCEPT !.items = SubSeq(@, 1, n)]), last.src, FALSE)
    /\ UNCHANGED <<tok, auth, bld, blk, share, buf>>

\* one symbol of a base 64 string replaced by one outside the alphabet
Corrupt(i) ==
    /\ HoldsData /\ last.clean
    /\ Data.enc = "base64"
    /\ i \in 1..Len(Data.items)
    /\ last' = Call("corrupt", None, None, <<i>>,
                    Ok([Data EXCEPT !.items[i].valid = FALSE]), last.src, FALSE)
    /\ UNCHANGED <<tok, auth, bld, blk, share, buf>>

FromBytes(root, keep) ==
    /\ HoldsData
    /\ Data.enc = "bytes"
    /\ LET ret == Biscuit_from_bytes(Data, root) IN
        /\ tok' = (IF keep /\ ret.ok THEN Some(Get(ret.val)) ELSE tok)
        /\ last' = Call("from_bytes", None, None, <<Data, root>>, ret, last.src, last.clean)
    /\ UNCHANGED <<auth, bld, blk, share, buf>>

FromBase64(root, keep) ==
    /\ HoldsData
    /\ Data.enc = "base64"
    /\ LET ret == Biscuit_from_base64(Data, root) IN
        /\ tok' = (IF keep /\ ret.ok THEN Some(Get(ret.val)) ELSE tok)
        /\ last' = Call("from_base64", None, None, <<Data, root>>, ret, last.src, last.clean)
    /\ UNCHANGED <<auth, bld, blk, share, buf>>

Init ==
    /\ tok = None
    /\ auth = None
    /\ last = NoCall
    /\ bld = None
    /\ blk = None
    /\ share = NoShare
    /\ buf = None

Next ==
    \/ \E b \in SampleBuilders, k \in KeyPairs : Build(b, k)
    \/ \E b \in SampleBuilders, keep \in BOOLEAN : AppendBlock(b, keep)
    \/ \E keep \in BOOLEAN : Seal(keep)
    \/ CreateBlock(FALSE)
    \/ BlockCount
    \/ \E index \in 0..MaxBlocks : BlockSource(index)
    \/ RevocationIdentifiers
    \/ ToBytes
    \/ ToBase64
    \/ \E i \in 1..MaxBlocks, b \in SampleBuilders : Tamper(i, b)
    \/ \E n \in 0..MaxBlocks : Truncate(n)
    \/ \E i \in 1..(MaxBlocks + 1) : Corrupt(i)
    \/ \E root \in PublicKeys, keep \in BOOLEAN : FromBytes(root, keep)
    \/ \E root \in PublicKeys, keep \in BOOLEAN : FromBase64(root, keep)

Spec == Init /\ [][Next]_vars

(***************************************************************************)
(* Authorizer lifecycle.  auth is the caller's Authorizer; it is made by   *)
(* new Authorizer() or by authorizer() on the token the caller holds.      *)
(***************************************************************************)
\* the tokens an Authorizer is made from: every one-block token, and the
\* attenuations of the two whose authority block holds a fact or a check
SampleTokens ==
    LET built == {Get(BiscuitBuilder_build(b, "K1").val) : b \in SampleBuilders}
        base == {t \in built : t.blocks[1].facts = <<"a">> \/ t.blocks[1].checks = <<[cond |-> "b"]>>}
    IN built \cup {Get(Biscuit_append(t, b).val) : t \in base, b \in SampleBuilders}

SampleSources ==
    {<<>>,
     <<Stmt("fact", "a"), Stmt("policy", "allow if a")>>,
     <<Stmt("policy", "deny if b"), Stmt("check", "check if b")>>,
     <<Stmt("rule", "b <- a")>>,
     <<Stmt("fact", "a"), Stmt("fact", BadText)>>,
     <<Stmt("policy", BadText)>>}

Size(a) == Len(a.facts) + Len(a.rules) + Len(a.checks) + Len(a.policies)

NewAuthorizer ==
    /\ auth = None
    /\ auth' = Some(Authorizer_new)
    /\ last' = Call("new", None, None, <<>>, Ok(Authorizer_new), None, FALSE)
    /\ UNCHANGED <<tok, bld, blk, share, buf>>

TokenAuthorizer ==
    /\ auth = None
    /\ IsSome(tok)
    /\ LET ret == Biscuit_authorizer(Get(tok)) IN
        /\ auth' = (IF ret.ok THEN Some(Get(ret.val)) ELSE None)
        /\ last' = Call("authorizer", tok, tok, <<>>, ret, None, FALSE)
    /\ UNCHANGED <<tok, bld, blk, share, buf>>

AddFact(text) ==
    /\ IsSome(auth)
    /\ Size(Get(auth)) < MaxAdds
    /\ LET c == Authorizer_add_fact(Get(auth), text) IN
        /\ auth' = Some(c.self)
        /\ last' = Call("add_fact", auth, Some(c.self), <<text>>, c.ret, None, FALSE)
    /\ UNCHANGED <<tok, bld, blk, share, buf>>

AddRule(text) ==
    /\ IsSome(auth)
    /\ Size(Get(auth)) < MaxAdds
    /\ LET c == Authorizer_add_rule(Get(auth), text) IN
        /\ auth' = Some(c.self)
        /\ last' = Call("add_rule", auth, Some(c.self), <<text>>, c.ret, None, FALSE)
    /\ UNCHANGED <<tok, bld, blk, share, buf>>

AddCheck(text) ==
    /\ IsSome(auth)
    /\ Size(Get(auth)) < MaxAdds
    /\ LET c == Authorizer_add_check(Get(auth), text) IN
        /\ auth' = Some(c.self)
        /\ last' = Call("add_check", auth, Some(c.self), <<text>>, c.ret, None, FALSE)
    /\ UNCHANGED <<tok, bld, blk, share, buf>>

AddPolicy(text) ==
    /\ IsSome(auth)
    /\ Size(Get(auth)) < MaxAdds
    /\ LET c == Authorizer_add_policy(Get(auth), text) IN
        /\ auth' = Some(c.self)
        /\ last' = Call("add_policy", auth, Some(c.self), <<text>>, c.ret, None, FALSE)
    /\ UNCHANGED <<tok, bld, blk, share, buf>>

AddCode(source) ==
    /\ IsSome(auth)
    /\ Size(Get(auth)) + Len(source) <= MaxAdds
    /\ LET c == Authorizer_add_code(Get(auth), source) IN
        /\ auth' = Some(c.self)
        /\ last' = Call("add_code", auth, Some(c.self), <<source>>, c.ret, None, FALSE)
    /\ UNCHANGED <<tok, bld, blk, share, buf>>

\* faulty variant: the lists drained into the crate's authorizer
AuthorizeCall_draining(self) ==
    [after |-> [self EXCEPT !.facts = <<>>, !.rules = <<>>, !.checks = <<>>, !.policies = <<>>],
     ret |-> Authorizer_authorize(self)]

\* faulty variant: the token taken out of the Authorizer
AuthorizeCall_taking(self) ==
    [after |-> [self EXCEPT !.token = None], ret |-> Authorizer_authorize(self)]

\* authorize(&self): the Authorizer is borrowed, the crate's authorizer is built anew
AuthorizeCall(self) == [after |-> self, ret |-> Authorizer_authorize(self)]

Authorize ==
    /\ IsSome(auth)
    /\ LET c == AuthorizeCall(Get(auth)) IN
        /\ auth' = Some(c.after)
        /\ last' = Call("authorize", auth, Some(c.after), <<>>, c.ret, None, FALSE)
    /\ UNCHANGED <<tok, bld, blk, share, buf>>

InitAuth ==
    /\ tok \in {None} \cup {Some(t) : t \in SampleTokens}
    /\ auth = None
    /\ last = NoCall
    /\ bld = None
    /\ blk = None
    /\ share = NoShare
    /\ buf = None

NextAuth ==
    \/ NewAuthorizer
    \/ TokenAuthorizer
    \/ \E text \in FactTexts \cup {BadText} : AddFact(text)
    \/ \E text \in RuleTexts \cup {BadText} : AddRule(text)
    \/ \E text \in CheckTexts \cup {BadText} : AddCheck(text)
    \/ \E text \in PolicyTexts \cup {BadText} : AddPolicy(text)
    \/ \E source \in SampleSources : AddCode(source)
    \/ Authorize

SpecAuth == InitAuth /\ [][NextAuth]_vars

(***************************************************************************)
(* Builders, Authorizer and token used together by one caller, who holds a *)
(* token and fills a BiscuitBuilder, or fills a BlockBuilder made by       *)
(* create_block and appends it, or makes an Authorizer, adds to it and     *)
(* authorizes, while also appending to and sealing the token.              *)
(***************************************************************************)
BuilderSize(b) == Len(b.facts) + Len(b.rules) + Len(b.checks)

NewBuilder ==
    /\ bld = None
    /\ bld' = Some(Biscuit_builder)
    /\ last' = Call("builder", None, None, <<>>, Ok(Biscuit_builder), None, FALSE)
    /\ UNCHANGED <<tok, auth, blk, share, buf>>

AddAuthorityFact(text) ==
    /\ IsSome(bld)
    /\ BuilderSize(Get(bld)) < MaxStmts
    /\ LET c == BiscuitBuilder_add_authority_fact(Get(bld), text) IN
        /\ bld' = Some(c.self)
        /\ last' = Call("add_authority_fact", bld, Some(c.self), <<text>>, c.ret, None, FALSE)
    /\ UNCHANGED <<tok, auth, blk, share, buf>>

AddAuthorityRule(text) ==
    /\ IsSome(bld)
    /\ BuilderSize(Get(bld)) < MaxStmts
    /\ LET c == BiscuitBuilder_add_authority_rule(Get(bld), text) IN
        /\ bld' = Some(c.self)
        /\ last' = Call("add_authority_rule", bld, Some(c.self), <<text>>, c.ret, None, FALSE)
    /\ UNCHANGED <<tok, auth, blk, share, buf>>

AddAuthorityCheck(text) ==
    /\ IsSome(bld)
    /\ BuilderSize(Get(bld)) < MaxStmts
    /\ LET c == BiscuitBuilder_add_authority_check(Get(bld), text) IN
        /\ bld' = Some(c.self)
        /\ last' = Call("add_authority_check", bld, Some(c.self), <<text>>, c.ret, None, FALSE)
    /\ UNCHANGED <<tok, auth, blk, share, buf>>

BlockAddFact(text) ==
    /\ IsSome(blk)
    /\ BuilderSize(Get(blk)) < MaxStmts
    /\ LET c == BlockBuilder_add_fact(Get(blk), text) IN
        /\ blk' = Some(c.self)
        /\ last' = Call("BlockBuilder::add_fact", blk, Some(c.self), <<text>>, c.ret, None, FALSE)
    /\ UNCHANGED <<tok, auth, bld, share, buf>>

BlockAddRule(text) ==
    /\ IsSome(blk)
    /\ BuilderSize(Get(blk)) < MaxStmts
    /\ LET c == BlockBuilder_add_rule(Get(blk), text) IN
        /\ blk' = Some(c.self)
        /\ last' = Call("BlockBuilder::add_rule", blk, Some(c.self), <<text>>, c.ret, None, FALSE)
    /\ UNCHANGED <<tok, auth, bld, share, buf>>

BlockAddCheck(text) ==
    /\ IsSome(blk)
    /\ BuilderSize(Get(blk)) < MaxStmts
    /\ LET c == BlockBuilder_add_check(Get(blk), text) IN
        /\ blk' = Some(c.self)
        /\ last' = Call("BlockBuilder::add_check", blk, Some(c.self), <<text>>, c.ret, None, FALSE)
    /\ UNCHANGED <<tok, auth, bld, share, buf>>

BlockAddCode(source) ==
    /\ IsSome(blk)
    /\ BuilderSize(Get(blk)) < MaxStmts
    /\ LET c == BlockBuilder_add_code(Get(blk), source) IN
        /\ blk' = Some(c.self)
        /\ last' = Call("BlockBuilder::add_code", blk, Some(c.self), <<source>>, c.ret, None, FALSE)
    /\ UNCHANGED <<tok, auth, bld, share, buf>>

\* the caller works on one object at a time
Idle == auth = None /\ bld = None /\ blk = None

\* the Authorizer has room for one more statement
Small == IsSome(auth) /\ Size(Get(auth)) < MaxStmts

\* the caller's token: one just built, with a fact or with a check
InitBuild ==
    /\ tok \in {Some(t) : t \in {u \in SampleTokens :
                    Len(u.blocks) = 1 /\ BuilderSize(u.blocks[1]) = 1 /\ u.blocks[1].rules = <<>>}}
    /\ auth = None
    /\ last = NoCall
    /\ bld = None
    /\ blk = None
    /\ share = NoShare
    /\ buf = None

NextBuild ==
    \/ Idle /\ NewBuilder
    \/ \E text \in FactTexts \cup {BadText} : AddAuthorityFact(text)
    \/ \E text \in RuleTexts \cup {BadText} : AddAuthorityRule(text)
    \/ \E text \in CheckTexts \cup {BadText} : AddAuthorityCheck(text)
    \/ Idle /\ CreateBlock(TRUE)
    \/ \E text \in FactTexts \cup {BadText} : BlockAddFact(text)
    \/ \E text \in RuleTexts \cup {BadText} : BlockAddRule(text)
    \/ \E text \in CheckTexts \cup {BadText} : BlockAddCheck(text)
    \/ \E source \in SampleSources : BlockAddCode(source)
    \/ IsSome(blk) /\ AppendBlock(Get(blk), FALSE)
    \/ Idle /\ NewAuthorizer
    \/ Idle /\ TokenAuthorizer
    \/ \E text \in FactTexts \cup {BadText} : Small /\ AddFact(text)
    \/ \E text \in RuleTexts \cup {BadText} : Small /\ AddRule(text)
    \/ \E text \in CheckTexts \cup {BadText} : Small /\ AddCheck(text)
    \/ \E text \in PolicyTexts \cup {BadText} : Small /\ AddPolicy(text)
    \/ \E source \in SampleSources : Small /\ AddCode(source)
    \/ Authorize
    \/ \E b \in {c \in SampleBuilders : c.rules = <<>> /\ c.facts = <<>>} :
          IsSome(auth) /\ AppendBlock(b, FALSE)
    \/ \E keep \in BOOLEAN : Seal(keep)

SpecBuild == InitBuild /\ [][NextBuild]_vars

(***************************************************************************)
(* The key codecs.  The caller writes the raw form of a key into a buffer  *)
(* or takes its hexadecimal form, passes the data on whole, cut, lengthened *)
(* or with a character replaced, and reads a key back from it.             *)
(***************************************************************************)
Keys == PublicKeys \cup PrivateKeys

IsPublic(key) == key \in PublicKeys

ToBytesOps == {"PublicKey::to_bytes", "PrivateKey::to_bytes"}

ToHexOps == {"PublicKey::to_hex", "PrivateKey::to_hex"}

\* to_bytes into a buffer of length n that holds fill in every place
KeyToBytes(key, n, fill) ==
    LET out == [i \in 1..n |-> fill]
        c == IF IsPublic(key) THEN PublicKey_to_bytes(key, out) ELSE PrivateKey_to_bytes(key, out)
    IN /\ buf' = Some(c.out)
       /\ last' = Call(IF IsPublic(key) THEN "PublicKey::to_bytes" ELSE "PrivateKey::to_bytes",
                       Some(key), Some(key), <<out>>, c.ret, Some(key), c.ret.ok)
       /\ UNCHANGED <<tok, auth, bld, blk, share>>

KeyToHex(key) ==
    /\ last' = Call(IF IsPublic(key) THEN "PublicKey::to_hex" ELSE "PrivateKey::to_hex",
                    Some(key), Some(key), <<>>,
                    Ok(IF IsPublic(key) THEN PublicKey_to_hex(key) ELSE PrivateKey_to_hex(key)),
                    Some(key), TRUE)
    /\ UNCHANGED <<tok, auth, bld, blk, share, buf>>

\* the buffer with a key's raw form cut to n bytes, or lengthened to n by zeros
Resize(n) ==
    /\ last.op \in ToBytesOps /\ last.ret.ok
    /\ n # Len(Get(buf))
    /\ buf' = Some([i \in 1..n |-> IF i <= Len(Get(buf)) THEN Get(buf)[i] ELSE 0])
    /\ last' = Call("resize", None, None, <<n>>, Ok(Unit), last.src, FALSE)
    /\ UNCHANGED <<tok, auth, bld, blk, share>>

\* the hexadecimal form cut to its first n characters
CutHex(n) ==
    /\ last.op \in ToHexOps
    /\ n < Len(Get(last.ret.val))
    /\ last' = Call("substring", None, None, <<n>>,
                    Ok(SubSeq(Get(last.ret.val), 1, n)), last.src, FALSE)
    /\ UNCHANGED <<tok, auth, bld, blk, share, buf>>

\* character i of the hexadecimal form replaced by one that is no digit
SpoilHex(i) ==
    /\ last.op \in ToHexOps
    /\ i \in 1..Len(Get(last.ret.val))
    /\ last' = Call("replace", None, None, <<i>>,
                    Ok([Get(last.ret.val) EXCEPT ![i] = "g"]), last.src, FALSE)
    /\ UNCHANGED <<tok, auth, bld, blk, share, buf>>

\* from_bytes on what the buffer holds, by the type the data was made from
KeyFromBytes ==
    /\ last.op \in ToBytesOps \cup {"resize"}
    /\ IsSome(buf)
    /\ LET public == IsPublic(Get(last.src))
           ret == IF public THEN PublicKey_from_bytes(Get(buf))
                  ELSE PrivateKey_from_bytes(Get(buf))
       IN last' = Call(IF public THEN "PublicKey::from_bytes" ELSE "PrivateKey::from_bytes",
                       None, None, <<Get(buf)>>, ret, last.src, last.clean)
    /\ UNCHANGED <<tok, auth, bld, blk, share, buf>>

KeyFromHex ==
    /\ last.op \in ToHexOps \cup {"substring", "replace"}
    /\ LET public == IsPublic(Get(last.src))
           data == Get(last.ret.val)
           ret == IF public THEN PublicKey_from_hex(data) ELSE PrivateKey_from_hex(data)
       IN last' = Call(IF public THEN "PublicKey::from_hex" ELSE "PrivateKey::from_hex",
                       None, None, <<data>>, ret, last.src, last.clean)
    /\ UNCHANGED <<tok, auth, bld, blk, share, buf>>

InitKeys ==
    /\ tok = None
    /\ auth = None
    /\ last = NoCall
    /\ bld = None
    /\ blk = None
    /\ share = NoShare
    /\ buf = None

NextKeys ==
    \/ \E key \in Keys, n \in {KeySize - 1, KeySize, KeySize + 1}, fill \in {0, 255} :
          KeyToBytes(key, n, fill)
    \/ \E key \in Keys : KeyToHex(key)
    \/ \E n \in {0, KeySize - 1, KeySize + 1} : Resize(n)
    \/ \E n \in {0, 1, 2 * KeySize - 2, 2 * KeySize - 1} : CutHex(n)
    \/ \E i \in {1, 2 * KeySize} : SpoilHex(i)
    \/ KeyFromBytes
    \/ KeyFromHex

SpecKeys == InitKeys /\ [][NextKeys]_vars

(***************************************************************************)
(* One token shared by two callers.  tok is the shared token; share gives  *)
(* for each caller the Authorizer it has made, if any, and its latest call *)
(* (op, arg, ret).  A step is one call of one caller; the calls of the two *)
(* callers interleave in any order.                                        *)
(***************************************************************************)
Callers == {1, 2}

NoShareCall == [op |-> "init", arg |-> <<>>, ret |-> Ok(Unit)]

\* caller c is left with Authorizer a and has had ret from op(arg)
Did(c, a, op, arg, ret) ==
    share' = [share EXCEPT ![c] = [auth |-> a, last |-> [op |-> op, arg |-> arg, ret |-> ret]]]

ShareAppend(c, b) ==
    /\ Get(tok).sealed \/ Len(Get(tok).blocks) < MaxBlocks
    /\ LET r == AppendCall(Get(tok), b) IN
        /\ tok' = Some(r.after)
        /\ Did(c, share[c].auth, "append", <<b>>, r.ret)
    /\ UNCHANGED <<auth, last, bld, blk, buf>>

ShareSeal(c) ==
    /\ LET r == SealCall(Get(tok)) IN
        /\ tok' = Some(r.after)
        /\ Did(c, share[c].auth, "seal", <<>>, r.ret)
    /\ UNCHANGED <<auth, last, bld, blk, buf>>

ShareCreateBlock(c) ==
    /\ Did(c, share[c].auth, "create_block", <<>>, Ok(Biscuit_create_block(Get(tok))))
    /\ UNCHANGED <<tok, auth, last, bld, blk, buf>>

ShareToBytes(c) ==
    /\ Did(c, share[c].auth, "to_bytes", <<>>, Biscuit_to_bytes(Get(tok)))
    /\ UNCHANGED <<tok, auth, last, bld, blk, buf>>

ShareRevocationIdentifiers(c) ==
    /\ Did(c, share[c].auth, "revocation_identifiers", <<>>,
           Ok(Biscuit_revocation_identifiers(Get(tok))))
    /\ UNCHANGED <<tok, auth, last, bld, blk, buf>>

ShareBlockCount(c) ==
    /\ Did(c, share[c].auth, "block_count", <<>>, Ok(Biscuit_block_count(Get(tok))))
    /\ UNCHANGED <<tok, auth, last, bld, blk, buf>>

ShareAuthorizer(c) ==
    /\ share[c].auth = None
    /\ LET ret == Biscuit_authorizer(Get(tok)) IN
        Did(c, IF ret.ok THEN Some(Get(ret.val)) ELSE None, "authorizer", <<>>, ret)
    /\ UNCHANGED <<tok, auth, last, bld, blk, buf>>

\* caller c has an Authorizer with room for one more statement
Own(c) == IsSome(share[c].auth) /\ Size(Get(share[c].auth)) < MaxOwn

ShareAddFact(c, text) ==
    /\ Own(c)
    /\ LET r == Authorizer_add_fact(Get(share[c].auth), text) IN
        Did(c, Some(r.self), "add_fact", <<text>>, r.ret)
    /\ UNCHANGED <<tok, auth, last, bld, blk, buf>>

ShareAddRule(c, text) ==
    /\ Own(c)
    /\ LET r == Authorizer_add_rule(Get(share[c].auth), text) IN
        Did(c, Some(r.self), "add_rule", <<text>>, r.ret)
    /\ UNCHANGED <<tok, auth, last, bld, blk, buf>>

ShareAddCheck(c, text) ==
    /\ Own(c)
    /\ LET r == Authorizer_add_check(Get(share[c].auth), text) IN
        Did(c, Some(r.self), "add_check", <<text>>, r.ret)
    /\ UNCHANGED <<tok, auth, last, bld, blk, buf>>

ShareAddPolicy(c, text) ==
    /\ Own(c)
    /\ LET r == Authorizer_add_policy(Get(share[c].auth), text) IN
        Did(c, Some(r.self), "add_policy", <<text>>, r.ret)
    /\ UNCHANGED <<tok, auth, last, bld, blk, buf>>

ShareAuthorize(c) ==
    /\ IsSome(share[c].auth)
    /\ LET r == AuthorizeCall(Get(share[c].auth)) IN
        Did(c, Some(r.after), "authorize", <<>>, r.ret)
    /\ UNCHANGED <<tok, auth, last, bld, blk, buf>>

\* the shared token: a token just built, with a fact or with a check
InitShare ==
    /\ tok \in {Some(t) : t \in {u \in SampleTokens :
                    Len(u.blocks) = 1 /\ BuilderSize(u.blocks[1]) = 1 /\ u.blocks[1].rules = <<>>}}
    /\ share = [c \in Callers |-> [auth |-> None, last |-> NoShareCall]]
    /\ auth = None
    /\ last = NoCall
    /\ bld = None
    /\ blk = None
    /\ buf = None

NextShare ==
    \E c \in Callers :
        \/ \E b \in {BlockBuilder_new, BlockBuilder_add_check(BlockBuilder_new, "check if b").self} :
              ShareAppend(c, b)
        \/ ShareSeal(c)
        \/ ShareCreateBlock(c)
        \/ ShareToBytes(c)
        \/ ShareRevocationIdentifiers(c)
        \/ ShareBlockCount(c)
        \/ ShareAuthorizer(c)
        \/ \E text \in FactTexts : ShareAddFact(c, text)
        \/ \E text \in RuleTexts : ShareAddRule(c, text)
        \/ ShareAddCheck(c, "check if b")
        \/ ShareAddPolicy(c, "allow if true")
        \/ ShareAuthorize(c)

SpecShare == InitShare /\ [][NextShare]_vars

(***************************************************************************)
(* What an authorization is about, stated from the Authorizer's fields:    *)
(* the blocks of its token, the combined lists and the evaluation context. *)
(***************************************************************************)
BlocksOf(az) == IF IsSome(az.token) THEN Get(az.token).blocks ELSE <<>>

TokenFacts(az) == Concat([i \in 1..Len(BlocksOf(az)) |-> BlocksOf(az)[i].facts])

TokenRules(az) == Concat([i \in 1..Len(BlocksOf(az)) |-> BlocksOf(az)[i].rules])

TokenChecks(az) == Concat([i \in 1..Len(BlocksOf(az)) |-> BlocksOf(az)[i].checks])

CombinedChecks(az) == TokenChecks(az) \o az.checks

CombinedContext(az) ==
    Saturate(Range(TokenFacts(az) \o az.facts), Range(TokenRules(az) \o az.rules),
             Cardinality(Atoms))

CheckHolds(az, i) == HoldsIn(CombinedChecks(az)[i].cond, CombinedContext(az))

PolicyHolds(az, j) == HoldsIn(az.policies[j].cond, CombinedContext(az))

AllChecksHold(az) == \A i \in 1..Len(CombinedChecks(az)) : CheckHolds(az, i)

FirstMatch(az, j) ==
    /\ j \in 1..Len(az.policies)
    /\ PolicyHolds(az, j)
    /\ \A i \in 1..(j - 1) : ~PolicyHolds(az, i)

Authorized == last.op = "authorize"

Az == Get(last.self)

\* C1: authorize() succeeds with index i only if policy i of the Authorizer's own
\* list is an allow policy and the first whose condition holds, fails with
\* DeniedByPolicy(i) only if policy i is a deny policy and the first whose
\* condition holds, and when all checks pass the first matching policy decides.
Thm_C1_FirstMatch ==
    Authorized =>
        /\ last.ret.ok =>
            /\ FirstMatch(Az, Get(last.ret.val) + 1)
            /\ Az.policies[Get(last.ret.val) + 1].kind = "allow"
        /\ last.ret.err = "DeniedByPolicy" =>
            /\ FirstMatch(Az, last.ret.policy + 1)
            /\ Az.policies[last.ret.policy + 1].kind = "deny"
        /\ \A j \in 1..Len(Az.policies) :
            (AllChecksHold(Az) /\ FirstMatch(Az, j)) =>
                IF Az.policies[j].kind = "allow"
                THEN last.ret.ok /\ Get(last.ret.val) = j - 1
                ELSE last.ret.err = "DeniedByPolicy" /\ last.ret.policy = j - 1

\* three policies, the first a deny policy that does not hold, the second and
\* the third allow policies that both hold: the result is index 1
Wit_C1 ==
    /\ Authorized
    /\ Len(Az.policies) = 3
    /\ Az.policies[1].kind = "deny" /\ ~PolicyHolds(Az, 1)
    /\ Az.policies[2].kind = "allow" /\ PolicyHolds(Az, 2)
    /\ Az.policies[3].kind = "allow" /\ PolicyHolds(Az, 3)
    /\ last.ret.ok /\ Get(last.ret.val) = 1

\* C2: a FailedChecks error carries exactly the indices, in the combined list
\* (token blocks' checks, then the Authorizer's), of the checks that do not hold.
Thm_C2_FailedSet ==
    (Authorized /\ last.ret.err = "FailedChecks") =>
        /\ last.ret.checks # {}
        /\ last.ret.checks =
             {i - 1 : i \in {k \in 1..Len(CombinedChecks(Az)) : ~CheckHolds(Az, k)}}

\* a check of the token and a check of the Authorizer both fail while a check holds
Wit_C2 ==
    /\ Authorized
    /\ last.ret.err = "FailedChecks"
    /\ Len(TokenChecks(Az)) >= 1 /\ Len(Az.checks) >= 1
    /\ Cardinality(last.ret.checks) = 2
    /\ \E i \in 1..Len(CombinedChecks(Az)) : CheckHolds(Az, i)

\* C3: a success implies every check of the token and of the Authorizer holds,
\* and a failing check gives FailedChecks whatever the policies are.
Thm_C3_ChecksGate ==
    Authorized =>
        /\ last.ret.ok => AllChecksHold(Az)
        /\ ~AllChecksHold(Az) => last.ret.err = "FailedChecks"

\* a check of the token fails while the first policy is an allow policy that holds
Wit_C3 ==
    /\ Authorized
    /\ \E i \in 1..Len(TokenChecks(Az)) : ~CheckHolds(Az, i)
    /\ Len(Az.policies) >= 1 /\ Az.policies[1].kind = "allow" /\ PolicyHolds(Az, 1)
    /\ last.ret.err = "FailedChecks"

\* C4: when all checks pass and no policy's condition holds, the empty policy
\* list included, authorize() fails with NoMatchingPolicy.
Thm_C4_DefaultDeny ==
    (Authorized /\ AllChecksHold(Az) /\ \A j \in 1..Len(Az.policies) : ~PolicyHolds(Az, j)) =>
        ~last.ret.ok /\ last.ret.err = "NoMatchingPolicy"

\* a fresh Authorizer, no token and nothing added, asked to authorize
Wit_C4 ==
    /\ Authorized
    /\ Az = Authorizer_new
    /\ last.ret.err = "NoMatchingPolicy"

(***************************************************************************)
(* Token claims                                                            *)
(***************************************************************************)
AppendRejected(t) ==
    \A b \in SampleBuilders : ~Biscuit_append(t, b).ok /\ Biscuit_append(t, b).err = "SealedToken"

AppendAccepted(t) == \A b \in SampleBuilders : Biscuit_append(t, b).ok

\* C5: the token seal returns rejects every append with the sealed-token error,
\* the token seal was called on is as before the call, and if it was unsealed
\* it still accepts every append; an append called on a sealed token fails.
Thm_C5_SealedRejects ==
    /\ (last.op = "seal" /\ last.ret.ok) =>
        /\ AppendRejected(Get(last.ret.val))
        /\ last.after = last.self
        /\ ~Get(last.self).sealed => AppendAccepted(Get(last.after))
    /\ (last.op = "append" /\ Get(last.self).sealed) =>
        ~last.ret.ok /\ last.ret.err = "SealedToken"

\* seal called on an unsealed token of two blocks, which the caller still holds
Wit_C5 ==
    /\ last.op = "seal" /\ last.ret.ok
    /\ ~Get(last.self).sealed
    /\ Len(Get(last.self).blocks) = 2
    /\ tok = last.self

ReturnsToken == last.op \in {"build", "append", "seal", "from_bytes", "from_base64"} /\ last.ret.ok

SealedStep ==
    (IsSome(tok) /\ Get(tok).sealed) =>
        /\ IsSome(tok') /\ AppendRejected(Get(tok'))
        /\ ReturnsToken' => AppendRejected(Get(last'.ret.val))

\* C6: once the caller's token is sealed, every call keeps it a token that
\* rejects append, and every token a call returns rejects append.
Thm_C6_SealIrreversible == [][SealedStep]_vars

\* a sealed token was serialized, read back and kept
Wit_C6 ==
    /\ last.op \in {"from_bytes", "from_base64"} /\ last.ret.ok
    /\ IsSome(last.src) /\ Get(last.src).sealed
    /\ tok = Some(Get(last.ret.val))
    /\ AppendRejected(Get(tok))

\* C7: append on an unsealed token succeeds with a token of one more block and
\* leaves the receiver (blocks, sealed flag) as it was.
Thm_C7_AppendAddsOne ==
    (last.op = "append" /\ ~Get(last.self).sealed) =>
        /\ last.ret.ok
        /\ Biscuit_block_count(Get(last.ret.val)) = Biscuit_block_count(Get(last.self)) + 1
        /\ last.after = last.self

\* an append whose result the caller did not keep: the handle is the receiver
Wit_C7 ==
    /\ last.op = "append" /\ last.ret.ok
    /\ tok = last.self
    /\ Biscuit_block_count(Get(last.ret.val)) = 2

Deserialized == last.op \in {"from_bytes", "from_base64"}

RightKey == last.arg[2].pub = Get(last.src).root

\* C9: deserialization returns a token only for data as the serialization made
\* it and the root key that signed block 0; changed content, truncated data and
\* another root key fail with a signature or format error.
Thm_C9_ChainIntegrity ==
    Deserialized =>
        /\ last.ret.ok => (last.clean /\ RightKey)
        /\ ~last.ret.ok => last.ret.err \in {"Signature", "Format"}

\* the first block of a two-block token was changed: a signature error
Wit_C9 ==
    /\ last.op = "from_bytes"
    /\ ~last.clean /\ RightKey
    /\ Len(Get(last.src).blocks) = 2
    /\ Content(last.arg[1].items[1]) # Content(Get(last.src).blocks[1])
    /\ last.ret.err = "Signature"

\* C10: data as to_bytes/to_base64 made it, read with the root key of the token,
\* gives a token with the same number of blocks and the same contents in order.
Thm_C10_RoundTrip ==
    (Deserialized /\ last.clean /\ RightKey) =>
        /\ last.ret.ok
        /\ Len(Get(last.ret.val).blocks) = Len(Get(last.src).blocks)
        /\ \A i \in 1..Len(Get(last.src).blocks) :
              Content(Get(last.ret.val).blocks[i]) = Content(Get(last.src).blocks[i])

\* a two-block token with different blocks went through base 64 and back
Wit_C10 ==
    /\ last.op = "from_base64" /\ last.clean /\ RightKey
    /\ last.ret.ok
    /\ Len(Get(last.src).blocks) = 2
    /\ Content(Get(last.src).blocks[1]) # Content(Get(last.src).blocks[2])

(***************************************************************************)
(* Attenuation                                                             *)
(***************************************************************************)
Attenuated(az, b) == [az EXCEPT !.token = Some(Get(Biscuit_append(Get(az.token), b).val))]

\* C8: whenever authorize() succeeds for the token with one more block and the
\* same additions, it succeeds for the token itself.
CEx_C8_AttenuationRestricts ==
    (Authorized /\ IsSome(Az.token)) =>
        \A b \in SampleBuilders :
            Authorizer_authorize(Attenuated(Az, b)).ok => last.ret.ok

(***************************************************************************)
(* Revocation identifiers                                                  *)
(***************************************************************************)
\* C11: revocation_identifiers gives one identifier per block, the i-th made
\* from the signature of block i, and the token read back from its
\* serialization has the same list as the token that was serialized.
Thm_C11_RevocationIds ==
    /\ last.op = "revocation_identifiers" =>
        /\ Len(Get(last.ret.val)) = Biscuit_block_count(Get(last.self))
        /\ \A i \in 1..Len(Get(last.self).blocks) :
              Get(last.ret.val)[i] = Base64Url(RevId(Get(last.self).blocks[i].sig))
    /\ (Deserialized /\ last.ret.ok) =>
        Biscuit_revocation_identifiers(Get(last.ret.val))
            = Biscuit_revocation_identifiers(Get(last.src))

\* the identifiers of a two-block token: two, and different
Wit_C11 ==
    /\ last.op = "revocation_identifiers"
    /\ Len(Get(last.self).blocks) = 2
    /\ Len(Get(last.ret.val)) = 2
    /\ Get(last.ret.val)[1] # Get(last.ret.val)[2]

(***************************************************************************)
(* The add calls of the Authorizer and of the builders                     *)
(***************************************************************************)
\* the list of one kind of an Authorizer or a builder
ListOf(obj, kind) ==
    CASE kind = "fact" -> obj.facts
      [] kind = "rule" -> obj.rules
      [] kind = "check" -> obj.checks
      [] kind = "policy" -> obj.policies

\* the kinds of list the receiver of a call has
KindsOf(op) ==
    IF op \in {"add_fact", "add_rule", "add_check", "add_policy", "add_code"}
    THEN {"fact", "rule", "check", "policy"}
    ELSE {"fact", "rule", "check"}

\* the statements of one kind in a source, in source order, as they are stored
StoredOf(source, kind) ==
    LET sel == SelectSeq(source, LAMBDA st : st.kind = kind) IN
    [i \in 1..Len(sel) |-> Get(ParseStmt(sel[i]).val)]

\* the object the caller holds after a call on the Authorizer or on a builder
Held(op) ==
    CASE op \in {"add_fact", "add_rule", "add_check", "add_policy", "add_code"} -> auth
      [] op \in {"add_authority_fact", "add_authority_rule", "add_authority_check"} -> bld
      [] OTHER -> blk

KindOfAdd(op) ==
    CASE op \in {"add_fact", "add_authority_fact", "BlockBuilder::add_fact"} -> "fact"
      [] op \in {"add_rule", "add_authority_rule", "BlockBuilder::add_rule"} -> "rule"
      [] op \in {"add_check", "add_authority_check", "BlockBuilder::add_check"} -> "check"
      [] OTHER -> "policy"

\* what the texts of one kind parse to
ParsedOf(kind) ==
    CASE kind = "fact" -> {Get(ParseFact(t).val) : t \in FactTexts}
      [] kind = "rule" -> {Get(ParseRule(t).val) : t \in RuleTexts}
      [] kind = "check" -> {Get(ParseCheck(t).val) : t \in CheckTexts}
      [] kind = "policy" -> {Get(ParsePolicy(t).val) : t \in PolicyTexts}

AllParsed(obj, kinds) ==
    \A kind \in kinds : \A i \in 1..Len(ListOf(obj, kind)) : ListOf(obj, kind)[i] \in ParsedOf(kind)

\* C17: an add_fact/add_rule/add_check/add_policy call on an Authorizer, or an
\* add_authority_* call on a BiscuitBuilder, whose text does not parse returns
\* an error and leaves the receiver as it was; one whose text parses puts the
\* parsed statement at the end of the list of its kind and leaves the other
\* lists and the attached token as they were; so every element of every list
\* is a parsed statement.
Thm_C17_EagerValidation ==
    /\ last.op \in {"add_fact", "add_rule", "add_check", "add_policy",
                    "add_authority_fact", "add_authority_rule", "add_authority_check"} =>
        LET before == Get(last.self)
            after == Get(last.after)
            kind == KindOfAdd(last.op)
            p == ParseStmt(Stmt(kind, last.arg[1]))
        IN /\ Held(last.op) = last.after
           /\ last.ret.ok = p.ok
           /\ IF last.ret.ok
              THEN /\ ListOf(after, kind) = Append(ListOf(before, kind), Get(p.val))
                   /\ \A other \in KindsOf(last.op) \ {kind} :
                        ListOf(after, other) = ListOf(before, other)
                   /\ KindsOf(last.op) = {"fact", "rule", "check", "policy"} =>
                        after.token = before.token
              ELSE after = before
    /\ IsSome(auth) => AllParsed(Get(auth), {"fact", "rule", "check", "policy"})
    /\ IsSome(bld) => AllParsed(Get(bld), {"fact", "rule", "check"})

\* an add_authority_fact call with a text that does not parse, on a
\* BiscuitBuilder that holds a statement already
Wit_C17 ==
    /\ last.op = "add_authority_fact"
    /\ ~last.ret.ok
    /\ BuilderSize(Get(last.self)) > 0
    /\ bld = last.self

AddOps == {"add_fact", "add_rule", "add_check", "add_policy", "add_code"}

\* C19 as stated: once authorize() has been called no later call changes the
\* Authorizer.
CEx_C19_ConsumedOnce == [][last.op = "authorize" => auth' = auth]_vars

\* C19: authorize() leaves the Authorizer as it was, token and lists, and an
\* add call made next takes effect on it as on any Authorizer: a successful
\* one extends the lists the Authorizer had when authorize() was called.
AfterAuthorize ==
    last.op = "authorize" =>
        /\ auth = last.self
        /\ (last'.op \in AddOps /\ last'.ret.ok) =>
              /\ last'.self = last.self
              /\ Size(Get(auth')) = Size(Get(last.self))
                    + (IF last'.op = "add_code" THEN Len(last'.arg[1]) ELSE 1)

Thm_C19_NotConsumed == [][AfterAuthorize]_vars

\* authorize() has returned a verdict and the Authorizer still holds its
\* token and its statements
Wit_C19 ==
    /\ last.op = "authorize"
    /\ last.ret.ok
    /\ IsSome(auth)
    /\ IsSome(Get(auth).token)
    /\ Size(Get(auth)) = MaxAdds - 1

(***************************************************************************)
(* Key codecs                                                              *)
(***************************************************************************)
\* C14: from_hex of the hexadecimal form to_hex gave returns the key it was
\* made from, for public and private keys; from_bytes on data whose length is
\* not 32 fails with InvalidKeySize; to_bytes into a buffer whose length is
\* not 32 fails with InvalidKeySize and the buffer holds what it held.
Thm_C14_KeyCodec ==
    /\ (last.op \in {"PublicKey::from_hex", "PrivateKey::from_hex"} /\ last.clean) =>
          last.ret = Ok(Get(last.src))
    /\ (last.op \in {"PublicKey::from_bytes", "PrivateKey::from_bytes"}
          /\ Len(last.arg[1]) # 32) =>
          (~last.ret.ok /\ last.ret.err = "InvalidKeySize")
    /\ (last.op \in ToBytesOps /\ Len(last.arg[1]) # 32) =>
          /\ ~last.ret.ok /\ last.ret.err = "InvalidKeySize"
          /\ buf = Some(last.arg[1])

\* to_bytes of a public key into a buffer of 31 bytes
Wit_C14 ==
    /\ last.op = "PublicKey::to_bytes"
    /\ Len(last.arg[1]) = 31
    /\ ~last.ret.ok
    /\ Len(Get(buf)) = 31

(***************************************************************************)
(* Merge order                                                             *)
(***************************************************************************)
\* what authorize() hands to the evaluation for the Authorizer it was called on
Filled(az) == FillAuthorizer(az.token, az.facts, az.rules, az.checks, az.policies)

\* C15: what authorize() evaluates holds the token's facts, rules and checks
\* block by block, authority block first, followed by the Authorizer's own
\* facts, rules and checks in the order they were added, and the Authorizer's
\* policies in that order; every fact of the token is in the context.
Thm_C15_MergeOrder ==
    Authorized =>
        /\ Filled(Az).facts = TokenFacts(Az) \o Az.facts
        /\ Filled(Az).rules = TokenRules(Az) \o Az.rules
        /\ Filled(Az).checks = TokenChecks(Az) \o Az.checks
        /\ Filled(Az).policies = Az.policies
        /\ Range(TokenFacts(Az)) \subseteq Context(Filled(Az))
        /\ last.ret = LibAuthorize(Filled(Az))

\* authorize() on an Authorizer with a fact, a check and a policy of its own
\* and a token of two blocks, a fact in the first and a check in the second
Wit_C15 ==
    /\ Authorized
    /\ Len(BlocksOf(Az)) = 2
    /\ BlocksOf(Az)[1].facts # <<>>
    /\ BlocksOf(Az)[2].checks # <<>>
    /\ Az.facts # <<>>
    /\ Az.checks # <<>>
    /\ Az.checks[1] # BlocksOf(Az)[2].checks[1]
    /\ Az.policies # <<>>

(***************************************************************************)
(* Append and seal keep what the token holds                               *)
(***************************************************************************)
\* block i (from 0) of t2 reads as block i of t and has its revocation identifier
SameBlock(t, t2, i) ==
    /\ Biscuit_block_source(t2, i) = Biscuit_block_source(t, i)
    /\ Biscuit_revocation_identifiers(t2)[i + 1] = Biscuit_revocation_identifiers(t)[i + 1]

\* C16: the token a successful append returns has, for every index below the
\* block count n of the token appended to, the block source and the revocation
\* identifier of that token, and its block n holds the facts, rules and checks
\* of the builder and nothing else; the token a successful seal returns has the
\* same blocks in the same order and differs in the sealed flag alone.
Thm_C16_PrefixPreserved ==
    /\ (last.op = "append" /\ last.ret.ok) =>
        LET t == Get(last.self)
            t2 == Get(last.ret.val)
            b == last.arg[1]
            n == Biscuit_block_count(t)
        IN /\ \A i \in 0..(n - 1) : SameBlock(t, t2, i)
           /\ Biscuit_block_count(t2) = n + 1
           /\ t2.blocks[n + 1].facts = b.facts
           /\ t2.blocks[n + 1].rules = b.rules
           /\ t2.blocks[n + 1].checks = b.checks
           /\ Biscuit_block_source(t2, n) = Some(PrintBlock(b))
    /\ (last.op = "seal" /\ last.ret.ok) =>
        LET t == Get(last.self)
            t2 == Get(last.ret.val)
        IN /\ Biscuit_block_count(t2) = Biscuit_block_count(t)
           /\ \A i \in 0..(Biscuit_block_count(t) - 1) : SameBlock(t, t2, i)
           /\ t2.sealed
           /\ [t2 EXCEPT !.sealed = t.sealed] = t

\* a block with a check appended to a token whose authority block holds a fact
Wit_C16 ==
    /\ last.op = "append"
    /\ last.ret.ok
    /\ Get(last.self).blocks[1].facts # <<>>
    /\ last.arg[1].checks # <<>>
    /\ Biscuit_block_source(Get(last.ret.val), 0) # Biscuit_block_source(Get(last.ret.val), 1)

(***************************************************************************)
(* The token and the objects made from it                                  *)
(***************************************************************************)
\* the calls on an Authorizer or on a BlockBuilder made from the token, and
\* the two calls that make them
DerivedOps ==
    {"create_block", "authorizer", "authorize"} \cup AddOps
    \cup {"BlockBuilder::add_fact", "BlockBuilder::add_rule", "BlockBuilder::add_check",
          "BlockBuilder::add_code"}

ReadOnlyStep ==
    /\ last'.op \in DerivedOps => tok' = tok
    /\ last'.op = "create_block" =>
          /\ last'.ret = Ok([facts |-> <<>>, rules |-> <<>>, checks |-> <<>>])
          /\ blk' = Some(Get(last'.ret.val))
    /\ last'.op = "authorizer" =>
          /\ last'.ret =
                Ok([token |-> tok, facts |-> <<>>, rules |-> <<>>, checks |-> <<>>,
                    policies |-> <<>>])
          /\ auth' = Some(Get(last'.ret.val))
    /\ (last'.op \in {"append", "seal"} /\ IsSome(auth)) =>
          /\ auth' = auth
          /\ Filled(Get(auth')) = Filled(Get(auth))
          /\ Authorizer_authorize(Get(auth')) = Authorizer_authorize(Get(auth))

\* C18: create_block() returns an empty BlockBuilder and authorizer() an
\* Authorizer with a copy of the token and four empty lists; no call that
\* makes or uses the BlockBuilder or the Authorizer changes the token (its
\* blocks, and with them its block count, sealed flag and revocation
\* identifiers); no append or seal on the token changes the Authorizer or
\* what it evaluates.
Thm_C18_TokenReadOnly == [][ReadOnlyStep]_vars

\* the token was sealed and rebound after an Authorizer was made from it and
\* added to: the Authorizer holds the token as it was
Wit_C18 ==
    /\ last.op = "seal"
    /\ IsSome(auth)
    /\ Size(Get(auth)) > 0
    /\ IsSome(Get(auth).token)
    /\ Get(tok).sealed
    /\ ~Get(Get(auth).token).sealed

(***************************************************************************)
(* Callers sharing one token                                               *)
(***************************************************************************)
\* what caller c's latest call returns when c is the only caller of the token
\* and of its own Authorizer
Alone(c) ==
    LET l == share[c].last
        t == Get(tok)
    IN CASE l.op = "append" -> Biscuit_append(t, l.arg[1])
         [] l.op = "seal" -> Biscuit_seal(t)
         [] l.op = "create_block" -> Ok(Biscuit_create_block(t))
         [] l.op = "to_bytes" -> Biscuit_to_bytes(t)
         [] l.op = "revocation_identifiers" -> Ok(Biscuit_revocation_identifiers(t))
         [] l.op = "block_count" -> Ok(Biscuit_block_count(t))
         [] l.op = "authorizer" -> Biscuit_authorizer(t)
         [] l.op = "authorize" -> Authorizer_authorize(Get(share[c].auth))
         [] l.op \in AddOps -> IF ParseStmt(Stmt(KindOfAdd(l.op), l.arg[1])).ok
                               THEN Ok(Unit) ELSE Err(LanguageError)
         [] OTHER -> Ok(Unit)

\* every caller has from its latest call what it has alone, and its
\* Authorizer holds the shared token
AsAlone ==
    \A c \in Callers :
        /\ share[c].last.ret = Alone(c)
        /\ IsSome(share[c].auth) => Get(share[c].auth).token = tok

\* the step leaves caller c's Authorizer and latest call as they were
Untouched(c) ==
    /\ share'[c].auth = share[c].auth
    /\ share'[c].last.op = share[c].last.op
    /\ share'[c].last = share[c].last

SharedStep ==
    /\ tok' = tok
    /\ \A c \in Callers : \A d \in Callers \ {c} : Untouched(c) \/ Untouched(d)

\* C20: whatever the order in which two callers make their calls on one
\* token, each on an Authorizer of its own, no call changes the token or the
\* other caller's Authorizer, and each call returns what it returns when its
\* caller is alone.
Thm_C20_SharedToken == []AsAlone /\ [][SharedStep]_vars

\* one caller has appended to the token and the other, after that or before,
\* has authorized on its own Authorizer
Wit_C20 ==
    /\ share # NoShare
    /\ share[1].last.op = "append"
    /\ share[1].last.ret.ok
    /\ IsSome(share[1].auth)
    /\ share[2].last.op = "authorize"
    /\ Size(Get(share[2].auth)) = MaxOwn
    /\ share[2].auth # share[1].auth

====
